---- MODULE Spec2Model ----
(***************************************************************************)
(* The encounter-balancing engine of SpellTable's backend:                 *)
(*   - MonsterService   (services/monster_service.py): the file-backed     *)
(*     monster catalog with its content-hash-invalidated cache;            *)
(*   - HitDiceService   (services/hit_dice_service.py): the dice-notation  *)
(*     parser;                                                             *)
(*   - EncounterService (services/encounter_service.py): XP arithmetic,    *)
(*     party thresholds, difficulty classification, encounter generation.  *)
(*                                                                         *)
(* Three specifications share the catalog's state:                         *)
(*   Spec     threads calling the catalog concurrently, one step per       *)
(*            shared-state access;                                         *)
(*   SeqSpec  the same steps, one call at a time;                          *)
(*   EncSpec  one generate_encounter request run step by step against a    *)
(*            catalog (added below).                                       *)
(***************************************************************************)
EXTENDS Integers, Sequences, FiniteSets, TLC

\* ------------------------------------------------------------------ bounds

\* Catalog calls started in one behaviour.
MaxCalls == 3

\* ------------------------------------------------------------- the monsters

\* A hit-dice string is a sequence of its characters.
\* A Monster keeps the three fields the engine reads: name, hp.hit_dice and
\* challenge.xp (models/monster.py); the rest is opaque metadata.
Monster(n, x, hd) ==
    [name |-> n, hp |-> [hit_dice |-> hd], challenge |-> [xp |-> x]]

Goblin == Monster("Goblin", 50, <<"2", "d", "2", "-", "2">>)
GoblinBoss == Monster("Goblin", 25, <<"1", "d", "2", "+", "1">>)
Orc == Monster("Orc", 100, <<"1", "d", "1">>)

\* The value of "no monster" (Python's None where a Monster is expected).
NoMonster == Monster("", 0, <<>>)

\* Monsters and names the catalog calls of a behaviour draw from.
CallMonsters == {Goblin, GoblinBoss, Orc}
CallNames == {"Goblin", "Orc"}

\* Monster(**monster_dict): a Monster object from one decoded JSON object.
MonsterFromDict(d) ==
    [name |-> d.name,
     hp |-> [hit_dice |-> d.hp.hit_dice],
     challenge |-> [xp |-> d.challenge.xp]]

\* monster.model_dump(): the JSON object of one Monster.
ModelDump(m) ==
    [name |-> m.name,
     hp |-> [hit_dice |-> m.hp.hit_dice],
     challenge |-> [xp |-> m.challenge.xp]]

\* [Monster(**monster_dict) for monster_dict in data]
MonstersFromData(data) == [i \in 1..Len(data) |-> MonsterFromDict(data[i])]

\* [monster.model_dump() for monster in monsters]
DumpMonsters(monsters) == [i \in 1..Len(monsters) |-> ModelDump(monsters[i])]

\* ------------------------------------------------------------ the file

\* The backing file is either a complete JSON document (an array of monster
\* objects) or empty: open(mode="w") truncates it before json.dump writes.
JsonFile(doc) == [kind |-> "json", doc |-> doc]
EmptyFile == [kind |-> "empty", doc |-> <<>>]

\* The documents a behaviour may start from: names pairwise distinct.
InitDocs ==
    {<<>>, DumpMonsters(<<Goblin>>), DumpMonsters(<<Goblin, Orc>>)}

\* monster_file_hash = '' (the class attribute, and the invalidated value).
EmptyHash == <<>>

\* __calculate_file_hash: SHA-256 of the file's bytes, taken as collision
\* free: equal digests iff equal content.  No digest equals ''.
CalculateFileHash(f) == <<f>>

\* ------------------------------------------------------------ the state

Threads == {"t1", "t2"}

\* List objects live in a heap: the cache and the callers' locals hold
\* references, so an in-place append is seen through every alias.
\* Reference 0 is None.
ObjIds == 1..(Cardinality(Threads) + 3)

VARIABLES
    file,               \* content of MONSTER_FILE_PATH
    monster_file_hash,  \* MonsterService.monster_file_hash
    monster_cache,      \* MonsterService.monster_cache: a reference or 0
    heap,               \* list objects: reference -> sequence of Monster
    pc,                 \* per thread: position in the current call
    op,                 \* per thread: the call and its arguments
    current_hash,       \* per thread: local of __load_monsters_from_file
    data,               \* per thread: local of __load_monsters_from_file
    monsters,           \* per thread: local `monsters`, a reference or 0
    initial_count,      \* per thread: local of delete_monster
    ret,                \* per thread: what the call returned
    parsed,             \* per thread: the call ran json.load
    dirtyAtStart,       \* per thread: the file was written after the last load
    unchangedAtStart,   \* per thread: a cache was held and the file was as loaded
    overlapped,         \* history, per thread: another call ran during this one
    writtenSinceLoad,   \* history: a save landed and no load finished since
    lastLoadAll,        \* history: the last load_monsters return, if no write since
    before,             \* history, per thread: the file when the call began
    wrote,              \* history, per thread: the call opened the file for writing
    prev,               \* history: the call that returned last
    loaded,             \* history: the file content the cache was parsed from
    calls,              \* calls started so far
    calc,               \* the last calculation of the encounter arithmetic
    request,            \* generate_encounter: the EncounterGenerationRequest
    epc,                \* generate_encounter: position in the call
    encounter_monsters, \* generate_encounter: local `monsters`
    idx,                \* generate_encounter: position of the running loop
    total_monster_xp,   \* generate_encounter: local
    adjusted_monster_xp, \* generate_encounter: local
    result,             \* generate_encounter: the EncounterGenerationResult
    error,              \* generate_encounter: the exception raised, or ""
    status,             \* POST /encounters: the HTTP status answered, 0 before
    cls_instance,       \* per class: the attribute instance / _instance, 0 unset
    cls_lock,           \* per class: the holder of _lock, or "free"
    allocated,          \* per class: instances created so far
    new_pc,             \* per thread: position in __new__
    new_cls,            \* per thread: the class being constructed
    obtained,           \* per thread and class: the instance __new__ returned last
    raced,              \* history, per class: the second check found an instance
    news                \* constructor calls started so far

catalogVars ==
    <<file, monster_file_hash, monster_cache, heap, pc, op, current_hash,
      data, monsters, initial_count, ret, parsed, dirtyAtStart,
      writtenSinceLoad, lastLoadAll, before, wrote, prev, loaded,
      unchangedAtStart, overlapped, calls>>

encounterVars ==
    <<request, epc, encounter_monsters, idx, total_monster_xp,
      adjusted_monster_xp, result, error>>

\* What generate_encounter shares with the catalog, and what it leaves alone.
cacheVars == <<monster_file_hash, monster_cache, heap, loaded>>
threadVars ==
    <<pc, op, current_hash, data, monsters, initial_count, ret, parsed,
      dirtyAtStart, writtenSinceLoad, lastLoadAll, before, wrote, prev,
      unchangedAtStart, overlapped, calls>>

routeVars == <<status>>

singletonVars ==
    <<cls_instance, cls_lock, allocated, new_pc, new_cls, obtained, raced, news>>

vars == <<catalogVars, calc, encounterVars, routeVars, singletonVars>>

\* What a call returned.
NoRet == [kind |-> "none", obj |-> 0, ok |-> FALSE, monster |-> NoMonster]
RetList(o) == [kind |-> "list", obj |-> o, ok |-> FALSE, monster |-> NoMonster]
RetBool(b) == [kind |-> "bool", obj |-> 0, ok |-> b, monster |-> NoMonster]
RetMonster(m) == [kind |-> "monster", obj |-> 0, ok |-> FALSE, monster |-> m]
RetNone == [kind |-> "notfound", obj |-> 0, ok |-> FALSE, monster |-> NoMonster]
RetError == [kind |-> "error", obj |-> 0, ok |-> FALSE, monster |-> NoMonster]

NoLoadAll == [valid |-> FALSE, obj |-> 0, cache |-> 0, hash |-> EmptyHash]

Call(k, n, m) == [kind |-> k, name |-> n, monster |-> m]
NoCall == Call("none", "", NoMonster)

\* The call that returned last: what it was, what it returned, the file when
\* it began and whether it opened the file for writing.
NoPrev ==
    [call |-> NoCall, kind |-> "none", ok |-> FALSE, monster |-> NoMonster,
     before |-> EmptyFile, wrote |-> FALSE]

\* The calls a thread may make.
Calls ==
    {Call("load_monsters", "", NoMonster)}
    \cup {Call("load_monster", n, NoMonster) : n \in CallNames}
    \cup {Call("create_monster", "", m) : m \in CallMonsters}
    \cup {Call("update_monster", n, m) : n \in CallNames, m \in CallMonsters}
    \cup {Call("delete_monster", n, NoMonster) : n \in CallNames}

\* The calls threads make concurrently.
ConcurrentCalls ==
    {Call("load_monsters", "", NoMonster),
     Call("load_monster", "Goblin", NoMonster),
     Call("create_monster", "", Orc),
     Call("update_monster", "Goblin", GoblinBoss),
     Call("delete_monster", "Goblin", NoMonster)}

\* ------------------------------------------------------------ the heap

\* References held anywhere, given the new cache, locals, returns and history.
Live(c, ms, rs, l) ==
    {c, l.obj} \cup {ms[t] : t \in Threads} \cup {rs[t].obj : t \in Threads}

\* Unreferenced objects are collected.
Sweep(h, live) == [i \in ObjIds |-> IF i \in live THEN h[i] ELSE <<>>]

\* A reference no one holds.
FreshId ==
    CHOOSE i \in ObjIds :
        /\ i \notin Live(monster_cache, monsters, ret, lastLoadAll)
        /\ \A j \in ObjIds :
               j \notin Live(monster_cache, monsters, ret, lastLoadAll) => i <= j

\* The position of the first entry named n, or 0.
FirstIndex(list, n) ==
    IF \E i \in 1..Len(list) : list[i].name = n
    THEN CHOOSE i \in 1..Len(list) :
             /\ list[i].name = n
             /\ \A j \in 1..(i - 1) : list[j].name # n
    ELSE 0

\* Mutant of Without: only the first entry of that name goes.
Without_FirstOnly(list, n) ==
    LET i == FirstIndex(list, n)
    IN IF i = 0 THEN list
       ELSE SubSeq(list, 1, i - 1) \o SubSeq(list, i + 1, Len(list))

\* [monster for monster in monsters if monster.name != monster_name]
RECURSIVE Without(_, _)
Without(list, n) ==
    IF list = <<>> THEN <<>>
    ELSE IF Head(list).name = n THEN Without(Tail(list), n)
    ELSE <<Head(list)>> \o Without(Tail(list), n)

\* ------------------------------------------------ encounter arithmetic

\* Bounds of the arithmetic's inputs.
MaxXp == 12
MaxMonsters == 16
MaxParty == 4

\* EncounterDifficulty (core/types.py), in ascending order.
EASY == "Easy"
MEDIUM == "Medium"
HARD == "Hard"
DEADLY == "Deadly"

\* _LEVEL_THRESHOLDS: per level, (easy, medium, hard, deadly).
LEVEL_THRESHOLDS ==
    <<  <<25, 50, 75, 100>>,
        <<50, 100, 150, 200>>,
        <<75, 150, 225, 400>>,
        <<125, 250, 375, 500>>,
        <<250, 500, 750, 1100>>,
        <<300, 600, 900, 1400>>,
        <<350, 750, 1100, 1700>>,
        <<450, 900, 1400, 2100>>,
        <<550, 1100, 1600, 2400>>,
        <<600, 1200, 1900, 2800>>,
        <<800, 1600, 2400, 3600>>,
        <<1000, 2000, 3000, 4500>>,
        <<1100, 2200, 3400, 5100>>,
        <<1250, 2500, 3800, 5700>>,
        <<1400, 2800, 4300, 6400>>,
        <<1600, 3200, 4800, 7200>>,
        <<2000, 3900, 5900, 8800>>,
        <<2100, 4200, 6300, 9500>>,
        <<2400, 4900, 7300, 10900>>,
        <<2800, 5700, 8500, 12700>>  >>

\* Mutant of CalculatePlayerThresholds: a level without a row gets level 1's.
CalculatePlayerThresholds_DefaultRow(level) ==
    IF level \in DOMAIN LEVEL_THRESHOLDS
    THEN LEVEL_THRESHOLDS[level]
    ELSE LEVEL_THRESHOLDS[1]

\* __calculate_player_thresholds: _LEVEL_THRESHOLDS.get(level, (0, 0, 0, 0)).
CalculatePlayerThresholds(level) ==
    IF level \in DOMAIN LEVEL_THRESHOLDS
    THEN LEVEL_THRESHOLDS[level]
    ELSE <<0, 0, 0, 0>>

\* Mutant of CalculatePartyThresholds: the hard and the deadly sums are
\* exchanged.
RECURSIVE CalculatePartyThresholds_HardDeadlySwapped(_)
CalculatePartyThresholds_HardDeadlySwapped(levels) ==
    IF levels = <<>>
    THEN [easy |-> 0, medium |-> 0, hard |-> 0, deadly |-> 0]
    ELSE LET n == Len(levels)
             acc == CalculatePartyThresholds_HardDeadlySwapped(SubSeq(levels, 1, n - 1))
             row == CalculatePlayerThresholds(levels[n])
         IN [easy |-> acc.easy + row[1],
             medium |-> acc.medium + row[2],
             hard |-> acc.hard + row[4],
             deadly |-> acc.deadly + row[3]]

\* __calculate_party_thresholds: the four running sums over the levels.
RECURSIVE CalculatePartyThresholds(_)
CalculatePartyThresholds(levels) ==
    IF levels = <<>>
    THEN [easy |-> 0, medium |-> 0, hard |-> 0, deadly |-> 0]
    ELSE LET n == Len(levels)
             acc == CalculatePartyThresholds(SubSeq(levels, 1, n - 1))
             row == CalculatePlayerThresholds(levels[n])
         IN [easy |-> acc.easy + row[1],
             medium |-> acc.medium + row[2],
             hard |-> acc.hard + row[3],
             deadly |-> acc.deadly + row[4]]

\* Mutant of AssessEncounterDifficulty: no XP at all is Easy.
AssessEncounterDifficulty_NothingIsEasy(adjusted, levels) ==
    LET thresholds == CalculatePartyThresholds(levels)
        xp == adjusted
    IN IF xp = 0 THEN EASY
       ELSE IF xp < thresholds.easy THEN EASY
       ELSE IF xp < thresholds.medium THEN EASY
       ELSE IF xp < thresholds.hard THEN MEDIUM
       ELSE IF xp < thresholds.deadly THEN HARD
       ELSE DEADLY

\* Mutant of AssessEncounterDifficulty: a threshold counts only once exceeded.
AssessEncounterDifficulty_Strict(adjusted, levels) ==
    LET thresholds == CalculatePartyThresholds(levels)
        xp == adjusted
    IN IF xp <= thresholds.easy THEN EASY
       ELSE IF xp <= thresholds.medium THEN EASY
       ELSE IF xp <= thresholds.hard THEN MEDIUM
       ELSE IF xp <= thresholds.deadly THEN HARD
       ELSE DEADLY

\* __assess_encounter_difficulty.
AssessEncounterDifficulty(adjusted, levels) ==
    LET thresholds == CalculatePartyThresholds(levels)
        xp == adjusted
    IN IF xp < thresholds.easy THEN EASY
       ELSE IF xp < thresholds.medium THEN EASY
       ELSE IF xp < thresholds.hard THEN MEDIUM
       ELSE IF xp < thresholds.deadly THEN HARD
       ELSE DEADLY

\* int(x) of the rational num/den, den > 0: the fraction is cut off towards 0.
IntOf(num, den) ==
    IF num >= 0 THEN num \div den ELSE -((-num) \div den)

\* The multiplier of __calculate_adjusted_xp as a fraction: 1.5 is 3/2.
Multiplier(num_monsters) ==
    IF num_monsters = 1 THEN [num |-> 1, den |-> 1]
    ELSE IF num_monsters = 2 THEN [num |-> 3, den |-> 2]
    ELSE IF 3 <= num_monsters /\ num_monsters <= 6 THEN [num |-> 2, den |-> 1]
    ELSE IF 7 <= num_monsters /\ num_monsters <= 10 THEN [num |-> 5, den |-> 2]
    ELSE IF 11 <= num_monsters /\ num_monsters <= 14 THEN [num |-> 3, den |-> 1]
    ELSE [num |-> 4, den |-> 1]

\* Mutant of CalculateAdjustedXp: the product is rounded up, not cut off.
CalculateAdjustedXp_RoundsUp(total_xp, num_monsters) ==
    LET multiplier == Multiplier(num_monsters)
    IN (total_xp * multiplier.num + multiplier.den - 1) \div multiplier.den

\* __calculate_adjusted_xp: int(total_xp * multiplier).
CalculateAdjustedXp(total_xp, num_monsters) ==
    LET multiplier == Multiplier(num_monsters)
    IN IntOf(total_xp * multiplier.num, multiplier.den)

\* --- the arithmetic applied to inputs drawn from bounded sets

NoThresholds == [easy |-> 0, medium |-> 0, hard |-> 0, deadly |-> 0]

NoCalc ==
    [fn |-> "none", total_xp |-> 0, num_monsters |-> 0, levels |-> <<>>,
     xp |-> 0, adjusted |-> 0, thresholds |-> NoThresholds, difficulty |-> "",
     expression |-> <<>>, parse |-> [ok |-> FALSE, dice |-> <<>>, modifier |-> 0]]

\* Character levels tried: inside the table, its two ends, and outside it.
LevelSamples == {0, 1, 3, 20, 21}

RECURSIVE SeqsUpTo(_, _)
SeqsUpTo(S, n) ==
    IF n = 0 THEN {<<>>}
    ELSE LET shorter == SeqsUpTo(S, n - 1)
         IN shorter \cup {Append(q, x) : q \in shorter, x \in S}

\* Every level with a row in the table, and the first one on either side.
AllLevels == 0..(Len(LEVEL_THRESHOLDS) + 1)

\* The parties tried: up to MaxParty members of the sampled levels, and one
\* member of each level.
Parties == SeqsUpTo(LevelSamples, MaxParty) \cup {<<l>> : l \in AllLevels}

\* Total XP values tried: every small one, and the documented example's 200.
TotalXpSamples == (0..MaxXp) \cup {200}

\* Adjusted XP values tried for a party: at, just below and just above each
\* of its four thresholds, and the documented example's 400.
XpSamples(levels) ==
    LET th == CalculatePartyThresholds(levels)
    IN {x \in UNION {{v - 1, v, v + 1} : v \in {th.easy, th.medium, th.hard, th.deadly}} :
           x >= 0} \cup {400}

\* Each behaviour applies one of the three functions to one input.
ApplyAdjustedXp ==
    /\ calc.fn = "none"
    /\ \E total \in TotalXpSamples, n \in 0..MaxMonsters :
           calc' = [NoCalc EXCEPT !.fn = "adjusted_xp", !.total_xp = total,
                                  !.num_monsters = n,
                                  !.adjusted = CalculateAdjustedXp(total, n)]
    /\ UNCHANGED <<catalogVars, encounterVars, routeVars, singletonVars>>

ApplyPartyThresholds ==
    /\ calc.fn = "none"
    /\ \E levels \in Parties :
           calc' = [NoCalc EXCEPT !.fn = "party_thresholds", !.levels = levels,
                                  !.thresholds = CalculatePartyThresholds(levels)]
    /\ UNCHANGED <<catalogVars, encounterVars, routeVars, singletonVars>>

ApplyAssessDifficulty ==
    /\ calc.fn = "none"
    /\ \E levels \in Parties :
           \E x \in XpSamples(levels) :
               calc' = [NoCalc EXCEPT !.fn = "assess", !.levels = levels, !.xp = x,
                                      !.difficulty = AssessEncounterDifficulty(x, levels)]
    /\ UNCHANGED <<catalogVars, encounterVars, routeVars, singletonVars>>

MathNext ==
    \/ ApplyAdjustedXp
    \/ ApplyPartyThresholds
    \/ ApplyAssessDifficulty

\* ------------------------------------------------------ the dice engine

Digits == {"0", "1", "2", "3", "4", "5", "6", "7", "8", "9"}

DigitValue(c) ==
    CASE c = "0" -> 0 [] c = "1" -> 1 [] c = "2" -> 2 [] c = "3" -> 3
      [] c = "4" -> 4 [] c = "5" -> 5 [] c = "6" -> 6 [] c = "7" -> 7
      [] c = "8" -> 8 [] c = "9" -> 9

\* int() of a run of digits.
RECURSIVE DigitsToInt(_)
DigitsToInt(ds) ==
    IF ds = <<>> THEN 0
    ELSE 10 * DigitsToInt(SubSeq(ds, 1, Len(ds) - 1)) + DigitValue(ds[Len(ds)])

\* str.strip(): leading and trailing whitespace goes.
Whitespace == {" ", "\t", "\n"}

RECURSIVE Strip(_)
Strip(s) ==
    IF s = <<>> THEN s
    ELSE IF Head(s) \in Whitespace THEN Strip(Tail(s))
    ELSE IF s[Len(s)] \in Whitespace THEN Strip(SubSeq(s, 1, Len(s) - 1))
    ELSE s

\* str.replace(" ", ""): every space goes, other whitespace stays.
RemoveSpaces(s) == SelectSeq(s, LAMBDA c : c # " ")

\* The position after the run of digits that starts at i (i itself if none).
RECURSIVE DigitRunEnd(_, _)
DigitRunEnd(s, i) ==
    IF i <= Len(s) /\ s[i] \in Digits THEN DigitRunEnd(s, i + 1) ELSE i

\* ([+-]?\d+d\d+|[+-]?\d+) with IGNORECASE, tried at position i: the position
\* after the match, or 0 when neither alternative matches there.
MatchEnd(s, i) ==
    LET p == IF i <= Len(s) /\ s[i] \in {"+", "-"} THEN i + 1 ELSE i
        q == DigitRunEnd(s, p)
        r == IF q <= Len(s) /\ s[q] \in {"d", "D"} THEN DigitRunEnd(s, q + 1) ELSE 0
    IN IF q = p THEN 0
       ELSE IF r > q + 1 THEN r
       ELSE q

\* Mutant of FindAll: the search ends at the first character no match
\* starts at.
RECURSIVE FindAll_StopsAtJunk(_, _)
FindAll_StopsAtJunk(s, i) ==
    IF i > Len(s) THEN <<>>
    ELSE LET e == MatchEnd(s, i)
         IN IF e = 0 THEN <<>>
            ELSE <<SubSeq(s, i, e - 1)>> \o FindAll_StopsAtJunk(s, e)

\* compiled_regex.findall(expression): the matches from left to right; a
\* character no match starts at is skipped.
RECURSIVE FindAll(_, _)
FindAll(s, i) ==
    IF i > Len(s) THEN <<>>
    ELSE LET e == MatchEnd(s, i)
         IN IF e = 0 THEN FindAll(s, i + 1)
            ELSE <<SubSeq(s, i, e - 1)>> \o FindAll(s, e)

\* "d" in token.lower()
IsDiceTerm(token) == \E k \in 1..Len(token) : token[k] \in {"d", "D"}

\* The groups of ([+-]?)(\d+)d(\d+) on a dice token.
DiceGroups(token) ==
    LET signed == token[1] \in {"+", "-"}
        first == IF signed THEN 2 ELSE 1
        dpos == CHOOSE k \in 1..Len(token) : token[k] \in {"d", "D"}
    IN [sign |-> IF signed THEN token[1] ELSE "",
        count |-> DigitsToInt(SubSeq(token, first, dpos - 1)),
        faces |-> DigitsToInt(SubSeq(token, dpos + 1, Len(token)))]

\* Mutant of NumberValue: the sign of the token is dropped.
NumberValue_Unsigned(token) ==
    IF token[1] \in {"+", "-"} THEN DigitsToInt(Tail(token))
    ELSE DigitsToInt(token)

\* int(token) of a plain-number token.
NumberValue(token) ==
    IF token[1] = "-" THEN -DigitsToInt(Tail(token))
    ELSE IF token[1] = "+" THEN DigitsToInt(Tail(token))
    ELSE DigitsToInt(token)

\* DiePool(count=count, die=Die(faces=faces))
DiePool(count, faces) == [count |-> count, die |-> [faces |-> faces]]

\* What parse_hit_dice gives: the dictionary, or the ValueError it raises.
Parsed(dice, modifier) == [ok |-> TRUE, dice |-> dice, modifier |-> modifier]
ParseError == [ok |-> FALSE, dice |-> <<>>, modifier |-> 0]

\* Mutant of ParseTokens: a dice term with a "-" sign is taken as a pool.
RECURSIVE ParseTokens_AcceptsNegative(_, _, _, _)
ParseTokens_AcceptsNegative(tokens, k, dice_terms, modifier) ==
    IF k > Len(tokens) THEN Parsed(dice_terms, modifier)
    ELSE IF IsDiceTerm(tokens[k])
    THEN LET g == DiceGroups(tokens[k])
         IN IF g.count <= 0 \/ g.faces <= 0 THEN ParseError
            ELSE ParseTokens_AcceptsNegative(tokens, k + 1,
                             Append(dice_terms, DiePool(g.count, g.faces)),
                             modifier)
    ELSE ParseTokens_AcceptsNegative(tokens, k + 1, dice_terms,
                     modifier + NumberValue(tokens[k]))

\* The loop over the tokens, from token k on.
RECURSIVE ParseTokens(_, _, _, _)
ParseTokens(tokens, k, dice_terms, modifier) ==
    IF k > Len(tokens) THEN Parsed(dice_terms, modifier)
    ELSE IF IsDiceTerm(tokens[k])
    THEN LET g == DiceGroups(tokens[k])
         IN IF g.count <= 0 \/ g.faces <= 0 THEN ParseError
            ELSE IF g.sign = "-" THEN ParseError
            ELSE ParseTokens(tokens, k + 1,
                             Append(dice_terms, DiePool(g.count, g.faces)),
                             modifier)
    ELSE ParseTokens(tokens, k + 1, dice_terms,
                     modifier + NumberValue(tokens[k]))

\* Mutant of ParseHitDice: an expression without terms parses to nothing.
ParseHitDice_NoTermsIsZero(expression) ==
    LET stripped == RemoveSpaces(Strip(expression))
        tokens == FindAll(stripped, 1)
    IN IF stripped = <<>> THEN ParseError
       ELSE ParseTokens(tokens, 1, <<>>, 0)

\* parse_hit_dice.
ParseHitDice(expression) ==
    LET stripped == RemoveSpaces(Strip(expression))
        tokens == FindAll(stripped, 1)
    IN IF stripped = <<>> THEN ParseError
       ELSE IF tokens = <<>> THEN ParseError
       ELSE ParseTokens(tokens, 1, <<>>, 0)

\* --- the parser applied to strings drawn from a bounded set

\* Length up to which every string over the alphabet is tried.
MaxLen == 4

\* Digits (zero included), the separator in both cases, both signs, a space
\* and a letter that belongs to no term.
Alphabet == {"0", "2", "3", "6", "d", "D", "+", "-", " ", "a"}

\* Longer expressions: the documented ones, several pools, several numbers,
\* a sign after a sign, other whitespace, letters only.
LongExpressions ==
    {<<"2", "d", "6", "-", "3">>,
     <<"2", "d", "6", "+", "3", "d", "2">>,
     <<"2", "d", "6", "-", "3", "d", "2">>,
     <<" ", "1", "D", "8", " ", "+", " ", "2", "d", "4", " ", "+", "3", " ", "-", " ", "1", " ">>,
     <<"1", "2", "d", "1", "0", "+", "-", "5">>,
     <<"2", "d", "0", "+", "1", "d", "6">>,
     <<"\t", "2", "d", "6", "\n">>,
     <<"2", "\t", "d", "6">>,
     <<" ", "\t", " ", "\n", " ">>,
     <<"a", "b", "c">>,
     <<"2", "d", "6", "x", "y", "z">>,
     <<"x", "2", "y", "d", "6", "z", "-", "1">>}

Expressions == SeqsUpTo(Alphabet, MaxLen) \cup LongExpressions

ApplyParseHitDice ==
    /\ calc.fn = "none"
    /\ \E e \in Expressions :
           calc' = [NoCalc EXCEPT !.fn = "parse", !.expression = e,
                                  !.parse = ParseHitDice(e)]
    /\ UNCHANGED <<catalogVars, encounterVars, routeVars, singletonVars>>

DiceNext == ApplyParseHitDice

\* The sums that count rolls of a die with that many faces can give.
RECURSIVE PoolSums(_, _)
PoolSums(count, faces) ==
    IF count = 0 THEN {0}
    ELSE {r + rest : r \in 1..faces, rest \in PoolSums(count - 1, faces)}

RECURSIVE DiceSums(_)
DiceSums(dice) ==
    IF dice = <<>> THEN {0}
    ELSE {a + b : a \in PoolSums(Head(dice).count, Head(dice).die.faces),
                  b \in DiceSums(Tail(dice))}

\* evaluate_hit_dice: the values it can return for an expression.  Every
\* pool is rolled, the rolls and the modifier are summed, and a total below
\* 1 is reported as 1.
EvaluateHitDice(expr) ==
    {IF total + expr.modifier < 1 THEN 1 ELSE total + expr.modifier :
         total \in DiceSums(expr.dice)}

\* ---------------------------------------------------- generate_encounter

\* Instances requested in one encounter, over all names.
MaxInstances == 2

\* random.randint(1, 20)
InitiativeFaces == 20

\* A catalog entry whose hit-dice text holds no term.
Blob == Monster("Blob", 10, <<"a", "b", "c">>)

\* The catalog generate_encounter runs against.
EncounterDoc == DumpMonsters(<<Goblin, Orc, Blob>>)

\* Names a request may ask for; no catalog has a Ghost.
RequestNames == {"Goblin", "Orc", "Blob", "Ghost"}

\* request.monsters, a dict in insertion order: pairs of name and count.
Entry(n, c) == [name |-> n, count |-> c]

RECURSIVE TotalCount(_)
TotalCount(mapping) ==
    IF mapping = <<>> THEN 0
    ELSE (IF Head(mapping).count > 0 THEN Head(mapping).count ELSE 0)
         + TotalCount(Tail(mapping))

\* An entry of count 0 is tried in the rosters below the largest size.
Mappings ==
    {m \in {<<>>}
           \cup {<<Entry(n, c)>> : n \in RequestNames, c \in 0..MaxInstances}
           \cup {<<Entry(n1, c1), Entry(n2, c2)>> :
                     n1 \in RequestNames, n2 \in RequestNames,
                     c1 \in 0..MaxInstances, c2 \in 0..MaxInstances} :
        /\ TotalCount(m) <= MaxInstances
        /\ (\E i \in 1..Len(m) : m[i].count = 0) => TotalCount(m) < MaxInstances
        /\ \A i \in 1..Len(m) : \A j \in 1..Len(m) : m[i].name = m[j].name => i = j}

\* Every roster is requested by a party of four level-3 characters; the
\* rosters of at most one instance also by a single character and by nobody.
RequestParties == {<<3, 3, 3, 3>>}
SmallRosterParties == {<<1>>, <<>>}

Requests ==
    {[character_levels |-> l, monsters |-> m] : l \in RequestParties, m \in Mappings}
    \cup {[character_levels |-> l, monsters |-> m] :
              l \in SmallRosterParties, m \in {x \in Mappings : TotalCount(x) <= 1}}

NoRequest == [character_levels |-> <<>>, monsters |-> <<>>]

\* EncounterMonster(name=monster_name): initiative and hp default to 1.
EncounterMonster(n) == [name |-> n, initiative |-> 1, hp |-> 1]

RECURSIVE Repeat(_, _)
Repeat(x, n) == IF n <= 0 THEN <<>> ELSE <<x>> \o Repeat(x, n - 1)

\* Mutant of ExpandMonsters: one instance per name, whatever its count.
RECURSIVE ExpandMonsters_OnePerName(_)
ExpandMonsters_OnePerName(mapping) ==
    IF mapping = <<>> THEN <<>>
    ELSE <<EncounterMonster(Head(mapping).name)>>
         \o ExpandMonsters_OnePerName(Tail(mapping))

\* generate_encounter, lines 52-56: for each item of the mapping in order,
\* count instances of that name.
RECURSIVE ExpandMonsters(_)
ExpandMonsters(mapping) ==
    IF mapping = <<>> THEN <<>>
    ELSE Repeat(EncounterMonster(Head(mapping).name), Head(mapping).count)
         \o ExpandMonsters(Tail(mapping))

NoResult ==
    [monsters |-> <<>>, monster_xp_total |-> 0, monster_xp_with_modifiers |-> 0,
     difficulty_rating |-> "", party_difficulty_thresholds |-> NoThresholds]

EncounterIdle ==
    /\ request = NoRequest
    /\ epc = "off"
    /\ encounter_monsters = <<>>
    /\ idx = 0
    /\ total_monster_xp = 0
    /\ adjusted_monster_xp = 0
    /\ result = NoResult
    /\ error = ""

\* __load_monsters_from_file run by the one caller there is: served from
\* the cache when the hash is the recorded one, parsed and cached otherwise.
LoadHit ==
    monster_file_hash = CalculateFileHash(file) /\ monster_cache # 0

LoadedList ==
    IF LoadHit THEN heap[monster_cache] ELSE MonstersFromData(file.doc)

\* Mutant of LoadMonstersFromFile: the file is opened for writing, which
\* empties it, when the cache is missed.
LoadMonstersFromFile_Truncates ==
    IF LoadHit
    THEN UNCHANGED <<cacheVars, file>>
    ELSE LET id == FreshId
         IN /\ monster_file_hash' = CalculateFileHash(file)
            /\ monster_cache' = id
            /\ heap' = Sweep([heap EXCEPT ![id] = MonstersFromData(file.doc)],
                             Live(id, monsters, ret, lastLoadAll))
            /\ loaded' = file
            /\ file' = EmptyFile

\* The file is hashed and, on a miss, opened with mode "r": it is only read.
LoadMonstersFromFile ==
    IF LoadHit
    THEN UNCHANGED <<cacheVars, file>>
    ELSE LET id == FreshId
         IN /\ monster_file_hash' = CalculateFileHash(file)
            /\ monster_cache' = id
            /\ heap' = Sweep([heap EXCEPT ![id] = MonstersFromData(file.doc)],
                             Live(id, monsters, ret, lastLoadAll))
            /\ loaded' = file
            /\ UNCHANGED file

\* Mutant of LoadMonsterIndex: the first catalog entry, whatever its name.
LoadMonsterIndex_First(list, monster_name) ==
    IF list = <<>> THEN 0 ELSE 1

\* MonsterService().load_monster(monster.name): the position of the entry
\* returned, 0 for None.
LoadMonsterIndex(list, monster_name) ==
    FirstIndex(list, monster_name)

\* Mutant of NextTotalXp: the running total is overwritten.
NextTotalXp_Overwrites(total_xp, m) ==
    m.challenge.xp

\* __calculate_total_xp, line 83: total_xp += m.challenge.xp.
NextTotalXp(total_xp, m) ==
    total_xp + m.challenge.xp

\* The call raised: no result, and its locals are gone.
Raise(e) ==
    /\ error' = e
    /\ epc' = "failed"
    /\ encounter_monsters' = <<>>
    /\ idx' = 0
    /\ total_monster_xp' = 0
    /\ adjusted_monster_xp' = 0
    /\ UNCHANGED <<result, request>>

\* Lines 52-56: the request's roster is expanded.
GenerateBegin ==
    /\ epc = "start"
    /\ encounter_monsters' = ExpandMonsters(request.monsters)
    /\ idx' = 1
    /\ epc' = "total_xp"
    /\ UNCHANGED <<request, total_monster_xp, adjusted_monster_xp, result, error>>
    /\ UNCHANGED <<catalogVars, calc, routeVars, singletonVars>>

\* __calculate_total_xp, one turn of its loop: the template is loaded and
\* its XP added; m is None for an unknown name and m.challenge raises.
TotalXpStep ==
    /\ epc = "total_xp"
    /\ idx <= Len(encounter_monsters)
    /\ LoadMonstersFromFile
    /\ LET i == LoadMonsterIndex(LoadedList, encounter_monsters[idx].name)
       IN IF i = 0
          THEN Raise("AttributeError")
          ELSE /\ total_monster_xp' = NextTotalXp(total_monster_xp, LoadedList[i])
               /\ idx' = idx + 1
               /\ UNCHANGED <<request, epc, encounter_monsters,
                              adjusted_monster_xp, result, error>>
    /\ UNCHANGED <<threadVars, calc, routeVars, singletonVars>>

\* Line 59: the adjusted XP of the total and the number of instances.
AdjustXp ==
    /\ epc = "total_xp"
    /\ idx > Len(encounter_monsters)
    /\ adjusted_monster_xp' =
           CalculateAdjustedXp(total_monster_xp, Len(encounter_monsters))
    /\ idx' = 1
    /\ epc' = "initiative_hp"
    /\ UNCHANGED <<request, encounter_monsters, total_monster_xp, result, error>>
    /\ UNCHANGED <<catalogVars, calc, routeVars, singletonVars>>

\* __calculate_initiative_and_hp, one turn of its loop: the initiative is
\* rolled, the template loaded, its hit dice parsed and evaluated.
InitiativeHpStep ==
    /\ epc = "initiative_hp"
    /\ idx <= Len(encounter_monsters)
    /\ LoadMonstersFromFile
    /\ \E initiative \in 1..InitiativeFaces :
           LET i == LoadMonsterIndex(LoadedList, encounter_monsters[idx].name)
               expr == ParseHitDice(LoadedList[i].hp.hit_dice)
           IN IF i = 0
              THEN Raise("AttributeError")
              ELSE IF ~expr.ok
              THEN Raise("ValueError")
              ELSE \E hp \in EvaluateHitDice(expr) :
                       /\ encounter_monsters' =
                              [encounter_monsters EXCEPT ![idx] =
                                  [name |-> @.name, initiative |-> initiative,
                                   hp |-> hp]]
                       /\ idx' = idx + 1
                       /\ UNCHANGED <<request, epc, total_monster_xp,
                                      adjusted_monster_xp, result, error>>
    /\ UNCHANGED <<threadVars, calc, routeVars, singletonVars>>

\* Lines 60-66: the result is built and returned.
BuildResult ==
    /\ epc = "initiative_hp"
    /\ idx > Len(encounter_monsters)
    /\ result' =
           [monsters |-> encounter_monsters,
            monster_xp_total |-> total_monster_xp,
            monster_xp_with_modifiers |-> adjusted_monster_xp,
            difficulty_rating |->
                AssessEncounterDifficulty(adjusted_monster_xp,
                                          request.character_levels),
            party_difficulty_thresholds |->
                CalculatePartyThresholds(request.character_levels)]
    /\ epc' = "done"
    /\ encounter_monsters' = <<>>
    /\ idx' = 0
    /\ total_monster_xp' = 0
    /\ adjusted_monster_xp' = 0
    /\ UNCHANGED <<request, error>>
    /\ UNCHANGED <<catalogVars, calc, routeVars, singletonVars>>

\* The exceptions of the service that are HTTPExceptions: it raises none.
IsHTTPException(e) == FALSE

\* routes/encounters.py, lines 10-16: the result is answered with the
\* route's status; an HTTPException is raised again and every other
\* exception becomes HTTPException(status_code=500).
Respond ==
    /\ epc \in {"done", "failed"}
    /\ status = 0
    /\ status' = IF epc = "done" THEN 200
                 ELSE IF IsHTTPException(error) THEN 404
                 ELSE 500
    /\ UNCHANGED <<catalogVars, calc, encounterVars, singletonVars>>

EncNext ==
    \/ GenerateBegin
    \/ TotalXpStep
    \/ AdjustXp
    \/ InitiativeHpStep
    \/ BuildResult
    \/ Respond

\* ------------------------------------------------- the singletons

\* Constructor calls started in one behaviour.
MaxNew == 3

\* The three service classes; EncounterService and HitDiceService guard
\* the creation with _lock, MonsterService has no lock.
Classes == {"MonsterService", "EncounterService", "HitDiceService"}
Locked(c) == c \in {"EncounterService", "HitDiceService"}

SingletonInit ==
    /\ cls_instance = [c \in Classes |-> 0]
    /\ cls_lock = [c \in Classes |-> "free"]
    /\ allocated = [c \in Classes |-> 0]
    /\ new_pc = [t \in Threads |-> "idle"]
    /\ new_cls = [t \in Threads |-> "none"]
    /\ obtained = [t \in Threads |-> [c \in Classes |-> 0]]
    /\ raced = [c \in Classes |-> FALSE]
    /\ news = 0

\* A thread calls c().
NewBegin(t, c) ==
    /\ new_pc[t] = "idle"
    /\ news < MaxNew
    /\ news' = news + 1
    /\ new_cls' = [new_cls EXCEPT ![t] = c]
    /\ new_pc' = [new_pc EXCEPT ![t] = "check"]
    /\ UNCHANGED <<cls_instance, cls_lock, allocated, obtained, raced>>
    /\ UNCHANGED <<catalogVars, calc, encounterVars, routeVars>>

\* The first test: `if not hasattr(cls, "instance")` (monster_service.py:25),
\* `if cls._instance is None` (encounter_service.py:43, hit_dice_service.py:15).
NewCheck(t) ==
    /\ new_pc[t] = "check"
    /\ new_pc' = [new_pc EXCEPT ![t] =
                     IF cls_instance[new_cls[t]] # 0 THEN "return"
                     ELSE IF Locked(new_cls[t]) THEN "acquire"
                     ELSE "create"]
    /\ UNCHANGED <<cls_instance, cls_lock, allocated, new_cls, obtained, raced, news>>
    /\ UNCHANGED <<catalogVars, calc, encounterVars, routeVars>>

\* `with cls._lock:` the thread waits until the lock is free and takes it.
NewAcquire(t) ==
    /\ new_pc[t] = "acquire"
    /\ cls_lock[new_cls[t]] = "free"
    /\ cls_lock' = [cls_lock EXCEPT ![new_cls[t]] = t]
    /\ new_pc' = [new_pc EXCEPT ![t] = "recheck"]
    /\ UNCHANGED <<cls_instance, allocated, new_cls, obtained, raced, news>>
    /\ UNCHANGED <<catalogVars, calc, encounterVars, routeVars>>

\* Mutant of NewRecheck: no second test, the thread that holds the lock
\* creates an instance.
NewRecheck_NoSecondCheck(t) ==
    /\ new_pc[t] = "recheck"
    /\ new_pc' = [new_pc EXCEPT ![t] = "create"]
    /\ raced' = [raced EXCEPT ![new_cls[t]] = @ \/ cls_instance[new_cls[t]] # 0]
    /\ UNCHANGED <<cls_instance, cls_lock, allocated, new_cls, obtained, news>>
    /\ UNCHANGED <<catalogVars, calc, encounterVars, routeVars>>

\* The second test, under the lock: `if not cls._instance`.
NewRecheck(t) ==
    /\ new_pc[t] = "recheck"
    /\ new_pc' = [new_pc EXCEPT ![t] =
                     IF cls_instance[new_cls[t]] = 0 THEN "create" ELSE "release"]
    /\ raced' = [raced EXCEPT ![new_cls[t]] = @ \/ cls_instance[new_cls[t]] # 0]
    /\ UNCHANGED <<cls_instance, cls_lock, allocated, new_cls, obtained, news>>
    /\ UNCHANGED <<catalogVars, calc, encounterVars, routeVars>>

\* `cls.instance = super().__new__(cls)`: a new instance is created and
\* stored in the class attribute.
NewCreate(t) ==
    /\ new_pc[t] = "create"
    /\ allocated' = [allocated EXCEPT ![new_cls[t]] = @ + 1]
    /\ cls_instance' = [cls_instance EXCEPT ![new_cls[t]] = allocated[new_cls[t]] + 1]
    /\ new_pc' = [new_pc EXCEPT ![t] =
                     IF Locked(new_cls[t]) THEN "release" ELSE "return"]
    /\ UNCHANGED <<cls_lock, new_cls, obtained, raced, news>>
    /\ UNCHANGED <<catalogVars, calc, encounterVars, routeVars>>

\* The `with` block ends: the lock is released.
NewRelease(t) ==
    /\ new_pc[t] = "release"
    /\ cls_lock' = [cls_lock EXCEPT ![new_cls[t]] = "free"]
    /\ new_pc' = [new_pc EXCEPT ![t] = "return"]
    /\ UNCHANGED <<cls_instance, allocated, new_cls, obtained, raced, news>>
    /\ UNCHANGED <<catalogVars, calc, encounterVars, routeVars>>

\* `return cls.instance`: the attribute is read again and returned.
NewReturn(t) ==
    /\ new_pc[t] = "return"
    /\ obtained' = [obtained EXCEPT ![t][new_cls[t]] = cls_instance[new_cls[t]]]
    /\ new_pc' = [new_pc EXCEPT ![t] = "idle"]
    /\ new_cls' = [new_cls EXCEPT ![t] = "none"]
    /\ UNCHANGED <<cls_instance, cls_lock, allocated, raced, news>>
    /\ UNCHANGED <<catalogVars, calc, encounterVars, routeVars>>

\* Threads interleave at every step of __new__.
NewNext ==
    \E t \in Threads :
        \/ \E c \in Classes : NewBegin(t, c)
        \/ NewCheck(t)
        \/ NewAcquire(t)
        \/ NewRecheck(t)
        \/ NewCreate(t)
        \/ NewRelease(t)
        \/ NewReturn(t)

\* ------------------------------------------------------------ Init

\* The service as constructed (class attributes '' and None), no call under
\* way, over a file holding one of docs.
CatalogInit(docs) ==
    /\ file \in {JsonFile(d) : d \in docs}
    /\ monster_file_hash = EmptyHash
    /\ monster_cache = 0
    /\ heap = [i \in ObjIds |-> <<>>]
    /\ pc = [t \in Threads |-> "idle"]
    /\ op = [t \in Threads |-> NoCall]
    /\ current_hash = [t \in Threads |-> EmptyHash]
    /\ data = [t \in Threads |-> <<>>]
    /\ monsters = [t \in Threads |-> 0]
    /\ initial_count = [t \in Threads |-> 0]
    /\ ret = [t \in Threads |-> NoRet]
    /\ parsed = [t \in Threads |-> FALSE]
    /\ dirtyAtStart = [t \in Threads |-> FALSE]
    /\ writtenSinceLoad = FALSE
    /\ lastLoadAll = NoLoadAll
    /\ before = [t \in Threads |-> EmptyFile]
    /\ wrote = [t \in Threads |-> FALSE]
    /\ prev = NoPrev
    /\ loaded = EmptyFile
    /\ unchangedAtStart = [t \in Threads |-> FALSE]
    /\ overlapped = [t \in Threads |-> FALSE]
    /\ calls = 0

Init ==
    /\ CatalogInit(InitDocs)
    /\ calc = NoCalc
    /\ EncounterIdle
    /\ status = 0
    /\ SingletonInit

MathSpec == Init /\ [][MathNext]_vars

DiceSpec == Init /\ [][DiceNext]_vars

NewSpec == Init /\ [][NewNext]_vars

\* One request against the catalog, its cache cold.
EncInit ==
    /\ CatalogInit({EncounterDoc})
    /\ calc = NoCalc
    /\ request \in Requests
    /\ epc = "start"
    /\ encounter_monsters = <<>>
    /\ idx = 0
    /\ total_monster_xp = 0
    /\ adjusted_monster_xp = 0
    /\ result = NoResult
    /\ error = ""
    /\ status = 0
    /\ SingletonInit

EncSpec == EncInit /\ [][EncNext]_vars

\* ------------------------------------------------- the steps of a call

\* Thread u is inside a call: it has entered and has not returned.
InCall(u) == pc[u] \notin {"idle", "done"}

\* A thread enters public method c, which calls __load_monsters_from_file;
\* line 70: current_hash = hash of the file as it is now.
Begin(t, c) ==
    /\ pc[t] = "idle"
    /\ calls < MaxCalls
    /\ op' = [op EXCEPT ![t] = c]
    /\ current_hash' = [current_hash EXCEPT ![t] = CalculateFileHash(file)]
    /\ pc' = [pc EXCEPT ![t] = "check"]
    /\ calls' = calls + 1
    /\ parsed' = [parsed EXCEPT ![t] = FALSE]
    /\ dirtyAtStart' = [dirtyAtStart EXCEPT ![t] = writtenSinceLoad]
    /\ ret' = [ret EXCEPT ![t] = NoRet]
    /\ UNCHANGED <<file, monster_file_hash, monster_cache, heap, data,
                   monsters, initial_count, writtenSinceLoad, lastLoadAll>>
    /\ UNCHANGED <<calc, encounterVars, routeVars, singletonVars>>
    /\ before' = [before EXCEPT ![t] = file]
    /\ wrote' = [wrote EXCEPT ![t] = FALSE]
    /\ unchangedAtStart' =
           [unchangedAtStart EXCEPT ![t] = (monster_cache # 0 /\ loaded = file)]
    /\ overlapped' =
           [u \in Threads |->
               IF u = t THEN \E v \in Threads \ {t} : InCall(v)
               ELSE overlapped[u] \/ InCall(u)]
    /\ UNCHANGED <<prev, loaded>>

\* Mutant of CacheHit: any cached list is served, whatever the file's hash.
CacheHit_IgnoresHash(t) ==
    monster_cache # 0

\* Lines 71-72: the hash is the recorded one and a cache is present: return it.
CacheHit(t) ==
    monster_file_hash = current_hash[t] /\ monster_cache # 0

CheckCache(t) ==
    /\ pc[t] = "check"
    /\ IF CacheHit(t)
       THEN /\ monsters' = [monsters EXCEPT ![t] = monster_cache]
            /\ pc' = [pc EXCEPT ![t] = "loaded"]
            /\ writtenSinceLoad' = FALSE
       ELSE /\ pc' = [pc EXCEPT ![t] = "sethash"]
            /\ UNCHANGED <<monsters, writtenSinceLoad>>
    /\ UNCHANGED <<file, monster_file_hash, monster_cache, heap, op,
                   current_hash, data, initial_count, ret, parsed,
                   dirtyAtStart, lastLoadAll, calls>>
    /\ UNCHANGED <<calc, encounterVars, routeVars, singletonVars>>
    /\ UNCHANGED <<before, wrote, prev, loaded, unchangedAtStart, overlapped>>

\* Mutant of RecordHash: the hash of the file being loaded is not recorded.
RecordHash_NotRecorded(t) ==
    /\ pc[t] = "sethash"
    /\ pc' = [pc EXCEPT ![t] = "read"]
    /\ UNCHANGED <<file, monster_file_hash, monster_cache, heap, op,
                   current_hash, data, monsters, initial_count, ret, parsed,
                   dirtyAtStart, writtenSinceLoad, lastLoadAll, calls>>
    /\ UNCHANGED <<calc, encounterVars, routeVars, singletonVars>>
    /\ UNCHANGED <<before, wrote, prev, loaded, unchangedAtStart, overlapped>>

\* Line 73: self.monster_file_hash = current_hash.
RecordHash(t) ==
    /\ pc[t] = "sethash"
    /\ monster_file_hash' = current_hash[t]
    /\ pc' = [pc EXCEPT ![t] = "read"]
    /\ UNCHANGED <<file, monster_cache, heap, op, current_hash, data,
                   monsters, initial_count, ret, parsed, dirtyAtStart,
                   writtenSinceLoad, lastLoadAll, calls>>
    /\ UNCHANGED <<calc, encounterVars, routeVars, singletonVars>>
    /\ UNCHANGED <<before, wrote, prev, loaded, unchangedAtStart, overlapped>>

\* Lines 75-76: open the file and json.load it.  An empty file is no JSON
\* document: json.load raises and the call ends with that exception.
ReadFile(t) ==
    /\ pc[t] = "read"
    /\ parsed' = [parsed EXCEPT ![t] = TRUE]
    /\ IF file.kind = "json"
       THEN /\ data' = [data EXCEPT ![t] = file.doc]
            /\ pc' = [pc EXCEPT ![t] = "store"]
            /\ UNCHANGED <<ret, monsters>>
       ELSE /\ ret' = [ret EXCEPT ![t] = RetError]
            /\ monsters' = [monsters EXCEPT ![t] = 0]
            /\ pc' = [pc EXCEPT ![t] = "done"]
            /\ UNCHANGED data
    /\ UNCHANGED <<file, monster_file_hash, monster_cache, heap, op,
                   current_hash, initial_count, dirtyAtStart,
                   writtenSinceLoad, lastLoadAll, calls>>
    /\ UNCHANGED <<calc, encounterVars, routeVars, singletonVars>>
    /\ UNCHANGED <<before, wrote, prev, loaded, unchangedAtStart, overlapped>>

\* Lines 78-79: a new list replaces the cache and is returned.
StoreCache(t) ==
    /\ pc[t] = "store"
    /\ LET id == FreshId
           ms == [monsters EXCEPT ![t] = id]
           h == [heap EXCEPT ![id] = MonstersFromData(data[t])]
       IN /\ monster_cache' = id
          /\ monsters' = ms
          /\ heap' = Sweep(h, Live(id, ms, ret, lastLoadAll))
    /\ data' = [data EXCEPT ![t] = <<>>]
    /\ pc' = [pc EXCEPT ![t] = "loaded"]
    /\ writtenSinceLoad' = FALSE
    /\ UNCHANGED <<file, monster_file_hash, op, current_hash, initial_count,
                   ret, parsed, dirtyAtStart, lastLoadAll, calls>>
    /\ UNCHANGED <<calc, encounterVars, routeVars, singletonVars>>
    /\ loaded' = JsonFile(data[t])
    /\ UNCHANGED <<before, wrote, prev, unchangedAtStart, overlapped>>

\* The call ends with result r; its locals die.
Finish(t, r, h) ==
    LET ms == [monsters EXCEPT ![t] = 0]
        rs == [ret EXCEPT ![t] = r]
    IN /\ ret' = rs
       /\ monsters' = ms
       /\ heap' = Sweep(h, Live(monster_cache, ms, rs, lastLoadAll))
       /\ pc' = [pc EXCEPT ![t] = "done"]

\* load_monsters: return the list.
LoadMonsters(t) ==
    /\ pc[t] = "loaded"
    /\ op[t].kind = "load_monsters"
    /\ Finish(t, RetList(monsters[t]), heap)
    /\ UNCHANGED <<file, monster_file_hash, monster_cache, op, current_hash,
                   data, initial_count, parsed, dirtyAtStart,
                   writtenSinceLoad, lastLoadAll, calls>>
    /\ UNCHANGED <<calc, encounterVars, routeVars, singletonVars>>
    /\ UNCHANGED <<before, wrote, prev, loaded, unchangedAtStart, overlapped>>

\* load_monster: the first entry with that name, or None.
LoadMonster(t) ==
    /\ pc[t] = "loaded"
    /\ op[t].kind = "load_monster"
    /\ LET list == heap[monsters[t]]
           i == FirstIndex(list, op[t].name)
       IN Finish(t, IF i = 0 THEN RetNone ELSE RetMonster(list[i]), heap)
    /\ UNCHANGED <<file, monster_file_hash, monster_cache, op, current_hash,
                   data, initial_count, parsed, dirtyAtStart,
                   writtenSinceLoad, lastLoadAll, calls>>
    /\ UNCHANGED <<calc, encounterVars, routeVars, singletonVars>>
    /\ UNCHANGED <<before, wrote, prev, loaded, unchangedAtStart, overlapped>>

\* Mutant of CreateCheck: the name is not looked up, the monster is appended.
CreateCheck_NoDuplicateTest(t) ==
    /\ pc[t] = "loaded"
    /\ op[t].kind = "create_monster"
    /\ pc' = [pc EXCEPT ![t] = "append"]
    /\ UNCHANGED <<ret, monsters, heap>>
    /\ UNCHANGED <<file, monster_file_hash, monster_cache, op, current_hash,
                   data, initial_count, parsed, dirtyAtStart,
                   writtenSinceLoad, lastLoadAll, calls>>
    /\ UNCHANGED <<calc, encounterVars, routeVars, singletonVars>>
    /\ UNCHANGED <<before, wrote, prev, loaded, unchangedAtStart, overlapped>>

\* create_monster, lines 44-45: a monster of that name exists: return False.
CreateCheck(t) ==
    /\ pc[t] = "loaded"
    /\ op[t].kind = "create_monster"
    /\ IF FirstIndex(heap[monsters[t]], op[t].monster.name) # 0
       THEN Finish(t, RetBool(FALSE), heap)
       ELSE /\ pc' = [pc EXCEPT ![t] = "append"]
            /\ UNCHANGED <<ret, monsters, heap>>
    /\ UNCHANGED <<file, monster_file_hash, monster_cache, op, current_hash,
                   data, initial_count, parsed, dirtyAtStart,
                   writtenSinceLoad, lastLoadAll, calls>>
    /\ UNCHANGED <<calc, encounterVars, routeVars, singletonVars>>
    /\ UNCHANGED <<before, wrote, prev, loaded, unchangedAtStart, overlapped>>

\* Mutant of CreateAppend: the monster goes to the front of the list.
CreateAppend_Prepends(t) ==
    /\ pc[t] = "append"
    /\ heap' = [heap EXCEPT ![monsters[t]] = <<op[t].monster>> \o @]
    /\ pc' = [pc EXCEPT ![t] = "invalidate"]
    /\ UNCHANGED <<file, monster_file_hash, monster_cache, op, current_hash,
                   data, monsters, initial_count, ret, parsed, dirtyAtStart,
                   writtenSinceLoad, lastLoadAll, calls>>
    /\ UNCHANGED <<calc, encounterVars, routeVars, singletonVars>>
    /\ UNCHANGED <<before, wrote, prev, loaded, unchangedAtStart, overlapped>>

\* create_monster, line 46: monsters.append(monster), on the loaded list itself.
CreateAppend(t) ==
    /\ pc[t] = "append"
    /\ heap' = [heap EXCEPT ![monsters[t]] = Append(@, op[t].monster)]
    /\ pc' = [pc EXCEPT ![t] = "invalidate"]
    /\ UNCHANGED <<file, monster_file_hash, monster_cache, op, current_hash,
                   data, monsters, initial_count, ret, parsed, dirtyAtStart,
                   writtenSinceLoad, lastLoadAll, calls>>
    /\ UNCHANGED <<calc, encounterVars, routeVars, singletonVars>>
    /\ UNCHANGED <<before, wrote, prev, loaded, unchangedAtStart, overlapped>>

\* Mutant of UpdateReplace: every entry of that name is replaced.
UpdateReplace_EveryMatch(t) ==
    /\ pc[t] = "loaded"
    /\ op[t].kind = "update_monster"
    /\ LET i == FirstIndex(heap[monsters[t]], op[t].name)
       IN IF i = 0
          THEN Finish(t, RetBool(FALSE), heap)
          ELSE /\ heap' = [heap EXCEPT ![monsters[t]] =
                             [k \in 1..Len(@) |->
                                 IF @[k].name = op[t].name
                                 THEN op[t].monster ELSE @[k]]]
               /\ pc' = [pc EXCEPT ![t] = "invalidate"]
               /\ UNCHANGED <<ret, monsters>>
    /\ UNCHANGED <<file, monster_file_hash, monster_cache, op, current_hash,
                   data, initial_count, parsed, dirtyAtStart,
                   writtenSinceLoad, lastLoadAll, calls>>
    /\ UNCHANGED <<calc, encounterVars, routeVars, singletonVars>>
    /\ UNCHANGED <<before, wrote, prev, loaded, unchangedAtStart, overlapped>>

\* update_monster, lines 53-58: replace the first match in place, or return False.
UpdateReplace(t) ==
    /\ pc[t] = "loaded"
    /\ op[t].kind = "update_monster"
    /\ LET i == FirstIndex(heap[monsters[t]], op[t].name)
       IN IF i = 0
          THEN Finish(t, RetBool(FALSE), heap)
          ELSE /\ heap' = [heap EXCEPT ![monsters[t]][i] = op[t].monster]
               /\ pc' = [pc EXCEPT ![t] = "invalidate"]
               /\ UNCHANGED <<ret, monsters>>
    /\ UNCHANGED <<file, monster_file_hash, monster_cache, op, current_hash,
                   data, initial_count, parsed, dirtyAtStart,
                   writtenSinceLoad, lastLoadAll, calls>>
    /\ UNCHANGED <<calc, encounterVars, routeVars, singletonVars>>
    /\ UNCHANGED <<before, wrote, prev, loaded, unchangedAtStart, overlapped>>

\* Mutant of DeleteFilter: the new list keeps no entry at all.
DeleteFilter_KeepsNothing(t) ==
    /\ pc[t] = "loaded"
    /\ op[t].kind = "delete_monster"
    /\ initial_count' = [initial_count EXCEPT ![t] = Len(heap[monsters[t]])]
    /\ LET id == FreshId
           ms == [monsters EXCEPT ![t] = id]
           h == [heap EXCEPT ![id] = <<>>]
       IN /\ monsters' = ms
          /\ heap' = Sweep(h, Live(monster_cache, ms, ret, lastLoadAll))
    /\ pc' = [pc EXCEPT ![t] = "invalidate"]
    /\ UNCHANGED <<file, monster_file_hash, monster_cache, op, current_hash,
                   data, ret, parsed, dirtyAtStart, writtenSinceLoad,
                   lastLoadAll, calls>>
    /\ UNCHANGED <<calc, encounterVars, routeVars, singletonVars>>
    /\ UNCHANGED <<before, wrote, prev, loaded, unchangedAtStart, overlapped>>

\* delete_monster, lines 63-64: a new, filtered list.
DeleteFilter(t) ==
    /\ pc[t] = "loaded"
    /\ op[t].kind = "delete_monster"
    /\ initial_count' = [initial_count EXCEPT ![t] = Len(heap[monsters[t]])]
    /\ LET id == FreshId
           ms == [monsters EXCEPT ![t] = id]
           h == [heap EXCEPT ![id] = Without(heap[monsters[t]], op[t].name)]
       IN /\ monsters' = ms
          /\ heap' = Sweep(h, Live(monster_cache, ms, ret, lastLoadAll))
    /\ pc' = [pc EXCEPT ![t] = "invalidate"]
    /\ UNCHANGED <<file, monster_file_hash, monster_cache, op, current_hash,
                   data, ret, parsed, dirtyAtStart, writtenSinceLoad,
                   lastLoadAll, calls>>
    /\ UNCHANGED <<calc, encounterVars, routeVars, singletonVars>>
    /\ UNCHANGED <<before, wrote, prev, loaded, unchangedAtStart, overlapped>>

\* Mutant of Invalidate: the recorded hash is kept.
Invalidate_KeepsHash(t) ==
    /\ pc[t] = "invalidate"
    /\ UNCHANGED monster_file_hash
    /\ pc' = [pc EXCEPT ![t] = "open"]
    /\ UNCHANGED <<file, monster_cache, heap, op, current_hash, data,
                   monsters, initial_count, ret, parsed, dirtyAtStart,
                   writtenSinceLoad, lastLoadAll, calls>>
    /\ UNCHANGED <<calc, encounterVars, routeVars, singletonVars>>
    /\ UNCHANGED <<before, wrote, prev, loaded, unchangedAtStart, overlapped>>

\* __save_monsters_to_file, line 82: self.monster_file_hash = ''.
Invalidate(t) ==
    /\ pc[t] = "invalidate"
    /\ monster_file_hash' = EmptyHash
    /\ pc' = [pc EXCEPT ![t] = "open"]
    /\ UNCHANGED <<file, monster_cache, heap, op, current_hash, data,
                   monsters, initial_count, ret, parsed, dirtyAtStart,
                   writtenSinceLoad, lastLoadAll, calls>>
    /\ UNCHANGED <<calc, encounterVars, routeVars, singletonVars>>
    /\ UNCHANGED <<before, wrote, prev, loaded, unchangedAtStart, overlapped>>

\* Line 83: open(mode="w") truncates the file.
OpenForWrite(t) ==
    /\ pc[t] = "open"
    /\ file' = EmptyFile
    /\ pc' = [pc EXCEPT ![t] = "dump"]
    /\ lastLoadAll' = NoLoadAll
    /\ heap' = Sweep(heap, Live(monster_cache, monsters, ret, NoLoadAll))
    /\ UNCHANGED <<monster_file_hash, monster_cache, op, current_hash, data,
                   monsters, initial_count, ret, parsed, dirtyAtStart,
                   writtenSinceLoad, calls>>
    /\ UNCHANGED <<calc, encounterVars, routeVars, singletonVars>>
    /\ wrote' = [wrote EXCEPT ![t] = TRUE]
    /\ UNCHANGED <<before, prev, loaded, unchangedAtStart, overlapped>>

\* Mutant of OpenFails: the file is emptied before the open fails.
OpenFails_Truncates(t) ==
    /\ pc[t] = "open"
    /\ file' = EmptyFile
    /\ Finish(t, RetError, heap)
    /\ UNCHANGED <<monster_file_hash, monster_cache, op, current_hash, data,
                   initial_count, parsed, dirtyAtStart, writtenSinceLoad,
                   lastLoadAll, calls>>
    /\ UNCHANGED <<calc, encounterVars, routeVars, singletonVars>>
    /\ UNCHANGED <<before, wrote, prev, loaded, unchangedAtStart, overlapped>>

\* Line 83 when open() raises OSError (no permission, no such directory):
\* the file is not touched and the exception ends the call.
OpenFails(t) ==
    /\ pc[t] = "open"
    /\ Finish(t, RetError, heap)
    /\ UNCHANGED <<file, monster_file_hash, monster_cache, op, current_hash,
                   data, initial_count, parsed, dirtyAtStart,
                   writtenSinceLoad, lastLoadAll, calls>>
    /\ UNCHANGED <<calc, encounterVars, routeVars, singletonVars>>
    /\ UNCHANGED <<before, wrote, prev, loaded, unchangedAtStart, overlapped>>

\* What the write calls return once saved.
SavedResult(t) ==
    IF op[t].kind = "delete_monster"
    THEN RetBool(Len(heap[monsters[t]]) < initial_count[t])
    ELSE RetBool(TRUE)

\* Line 84: json.dump of the list as it is now; the file is closed and the
\* caller returns.
DumpFile(t) ==
    /\ pc[t] = "dump"
    /\ file' = JsonFile(DumpMonsters(heap[monsters[t]]))
    /\ writtenSinceLoad' = TRUE
    /\ Finish(t, SavedResult(t), heap)
    /\ UNCHANGED <<monster_file_hash, monster_cache, op, current_hash, data,
                   initial_count, parsed, dirtyAtStart, lastLoadAll, calls>>
    /\ UNCHANGED <<calc, encounterVars, routeVars, singletonVars>>
    /\ UNCHANGED <<before, wrote, prev, loaded, unchangedAtStart, overlapped>>

\* The caller has the result; the thread is free for its next call.
Return(t) ==
    /\ pc[t] = "done"
    /\ LET l == IF ret[t].kind = "list"
                THEN [valid |-> TRUE, obj |-> ret[t].obj,
                      cache |-> monster_cache, hash |-> monster_file_hash]
                ELSE lastLoadAll
           rs == [ret EXCEPT ![t] = NoRet]
       IN /\ lastLoadAll' = l
          /\ ret' = rs
          /\ heap' = Sweep(heap, Live(monster_cache, monsters, rs, l))
    /\ pc' = [pc EXCEPT ![t] = "idle"]
    /\ op' = [op EXCEPT ![t] = NoCall]
    /\ UNCHANGED <<file, monster_file_hash, monster_cache, current_hash, data,
                   monsters, initial_count, parsed, dirtyAtStart,
                   writtenSinceLoad, calls>>
    /\ UNCHANGED <<calc, encounterVars, routeVars, singletonVars>>
    /\ prev' = [call |-> op[t], kind |-> ret[t].kind, ok |-> ret[t].ok,
                 monster |-> ret[t].monster, before |-> before[t],
                 wrote |-> wrote[t]]
    /\ before' = [before EXCEPT ![t] = EmptyFile]
    /\ wrote' = [wrote EXCEPT ![t] = FALSE]
    /\ overlapped' = [overlapped EXCEPT ![t] = FALSE]
    /\ UNCHANGED <<loaded, unchangedAtStart>>

\* The steps of a call that is under way.
Run(t) ==
    \/ CheckCache(t)
    \/ RecordHash(t)
    \/ ReadFile(t)
    \/ StoreCache(t)
    \/ LoadMonsters(t)
    \/ LoadMonster(t)
    \/ CreateCheck(t)
    \/ CreateAppend(t)
    \/ UpdateReplace(t)
    \/ DeleteFilter(t)
    \/ Invalidate(t)
    \/ OpenForWrite(t)
    \/ DumpFile(t)
    \/ Return(t)

\* Threads interleave at every step.
Next ==
    \E t \in Threads :
        \/ \E c \in ConcurrentCalls : Begin(t, c)
        \/ Run(t)

Spec == Init /\ [][Next]_vars

\* One call at a time: a call begins only while no other thread is in one.
SeqBegin(t, c) ==
    /\ \A u \in Threads \ {t} : pc[u] = "idle"
    /\ Begin(t, c)

SeqNext ==
    \E t \in Threads :
        \/ \E c \in Calls : SeqBegin(t, c)
        \/ Run(t)

SeqSpec == Init /\ [][SeqNext]_vars

\* One call at a time, of the calls of ConcurrentCalls, and any open for
\* writing may fail.
FaultNext ==
    \E t \in Threads :
        \/ \E c \in ConcurrentCalls : SeqBegin(t, c)
        \/ Run(t)
        \/ OpenFails(t)

FaultSpec == Init /\ [][FaultNext]_vars

\* ------------------------------------------------------- catalog claims

\* No call is in progress.
Quiescent == \A t \in Threads : pc[t] \in {"idle", "done"}

\* C1: in a sequential run, a load_monsters that is the first load after a
\* create, update or delete has written the file runs the JSON parser and
\* returns exactly the list that is in the file now.
C1_FirstLoadAfterWriteReparses ==
    \A t \in Threads :
        (pc[t] = "done" /\ op[t].kind = "load_monsters" /\ dirtyAtStart[t])
        => /\ ret[t].kind = "list"
           /\ parsed[t]
           /\ file.kind = "json"
           /\ heap[ret[t].obj] = MonstersFromData(file.doc)

\* C1's case: a load_monsters has returned a non-empty list right after a write.
C1_Witness ==
    \E t \in Threads :
        /\ pc[t] = "done" /\ op[t].kind = "load_monsters" /\ dirtyAtStart[t]
        /\ ret[t].kind = "list"
        /\ heap[ret[t].obj] # <<>>

\* C2: in a sequential run, a load_monsters that follows an earlier
\* load_monsters with no write to the file in between returns the same list
\* object, does not run the JSON parser and leaves the cache reference and
\* the recorded hash as the earlier call left them.
C2_SecondLoadServedFromCache ==
    \A t \in Threads :
        (pc[t] = "done" /\ op[t].kind = "load_monsters" /\ lastLoadAll.valid)
        => /\ ret[t] = RetList(lastLoadAll.obj)
           /\ ~parsed[t]
           /\ monster_cache = lastLoadAll.cache
           /\ monster_file_hash = lastLoadAll.hash

\* C2's case: a second load_monsters has returned with no write since the first.
C2_Witness ==
    \E t \in Threads :
        /\ pc[t] = "done" /\ op[t].kind = "load_monsters" /\ lastLoadAll.valid
        /\ ret[t].kind = "list"
        /\ heap[ret[t].obj] # <<>>

\* C3: under every interleaving, whenever no call is in progress, a recorded
\* hash equal to the file's hash together with a cached list implies that
\* the cached list is the parsed content of the file.
C3_CacheNeverStale ==
    (/\ Quiescent
     /\ monster_cache # 0
     /\ monster_file_hash = CalculateFileHash(file))
    => /\ file.kind = "json"
       /\ heap[monster_cache] = MonstersFromData(file.doc)

\* ---------------------------------------------------- arithmetic claims

\* C4: the difficulty returned for an adjusted XP and a party is Deadly iff
\* xp >= deadly, Hard iff hard <= xp < deadly, Medium iff medium <= xp < hard,
\* and Easy in every other case, below the easy threshold included.
C4_DifficultyIsHighestTierMet ==
    calc.fn = "assess" =>
        LET th == CalculatePartyThresholds(calc.levels)
            isDeadly == calc.xp >= th.deadly
            isHard == th.hard <= calc.xp /\ calc.xp < th.deadly
            isMedium == th.medium <= calc.xp /\ calc.xp < th.hard
        IN /\ (calc.difficulty = DEADLY) <=> isDeadly
           /\ (calc.difficulty = HARD) <=> isHard
           /\ (calc.difficulty = MEDIUM) <=> isMedium
           /\ (calc.difficulty = EASY) <=> ~(isDeadly \/ isHard \/ isMedium)

\* C4's case: 400 XP against four level-3 characters was classified Easy.
C4_Witness ==
    /\ calc.fn = "assess"
    /\ calc.levels = <<3, 3, 3, 3>>
    /\ calc.xp = 400
    /\ calc.difficulty = EASY

\* Twice the multiplier the documentation gives for n monsters.
C5_TwiceMultiplier(n) ==
    CASE n = 1 -> 2
      [] n = 2 -> 3
      [] n \in 3..6 -> 4
      [] n \in 7..10 -> 5
      [] n \in 11..14 -> 6
      [] OTHER -> 8

\* C5: for n >= 1 the adjusted XP is total_xp times the step multiplier with
\* the fraction cut off: the one integer a with a <= total * m < a + 1.
\* 200 XP of 4 monsters give 400; an odd total of 2 monsters loses its half.
C5_AdjustedXpIsTruncatedProduct ==
    (calc.fn = "adjusted_xp" /\ calc.num_monsters >= 1) =>
        LET twice == calc.total_xp * C5_TwiceMultiplier(calc.num_monsters)
        IN /\ 2 * calc.adjusted <= twice
           /\ twice < 2 * calc.adjusted + 2
           /\ (calc.total_xp = 200 /\ calc.num_monsters = 4) => calc.adjusted = 400
           /\ (calc.total_xp = 3 /\ calc.num_monsters = 2) => calc.adjusted = 4

\* C5's case: an odd total for two monsters, whose product has a half to lose.
C5_Witness ==
    /\ calc.fn = "adjusted_xp"
    /\ calc.num_monsters = 2
    /\ calc.total_xp = 3
    /\ calc.adjusted = 4

\* How many party members have level l.
C7_Count(levels, l) == Cardinality({i \in 1..Len(levels) : levels[i] = l})

\* The sum over the table's levels 1..l of (members of that level) times
\* the level's entry in column k.
RECURSIVE C7_ColumnSum(_, _, _)
C7_ColumnSum(levels, k, l) ==
    IF l = 0 THEN 0
    ELSE C7_ColumnSum(levels, k, l - 1)
         + C7_Count(levels, l) * LEVEL_THRESHOLDS[l][k]

\* C7: each party threshold is the sum of its column of the per-level table
\* over the members whose level is in 1..20; other levels add nothing.
\* Four level-3 characters give 300, 600, 900, 1600.
C7_PartyThresholdsAreColumnSums ==
    calc.fn = "party_thresholds" =>
        /\ calc.thresholds.easy = C7_ColumnSum(calc.levels, 1, 20)
        /\ calc.thresholds.medium = C7_ColumnSum(calc.levels, 2, 20)
        /\ calc.thresholds.hard = C7_ColumnSum(calc.levels, 3, 20)
        /\ calc.thresholds.deadly = C7_ColumnSum(calc.levels, 4, 20)
        /\ calc.levels = <<3, 3, 3, 3>> =>
               calc.thresholds =
                   [easy |-> 300, medium |-> 600, hard |-> 900, deadly |-> 1600]

\* C7's case: a party with a level outside 1..20 next to levels inside it.
C7_Witness ==
    /\ calc.fn = "party_thresholds"
    /\ Len(calc.levels) = MaxParty
    /\ \E i \in 1..Len(calc.levels) : calc.levels[i] \notin 1..20
    /\ \E i \in 1..Len(calc.levels) : calc.levels[i] \in 1..20
    /\ calc.thresholds.easy > 0

\* ------------------------------------------------------ encounter claims

\* The catalog entry a name stands for: the first one of that name in the file.
EntryResolves(n) == \E i \in 1..Len(file.doc) : file.doc[i].name = n

TemplateOf(n) ==
    file.doc[CHOOSE i \in 1..Len(file.doc) :
                 /\ file.doc[i].name = n
                 /\ \A j \in 1..Len(file.doc) : file.doc[j].name = n => i <= j]

AllNamesResolve ==
    \A k \in 1..Len(request.monsters) : EntryResolves(request.monsters[k].name)

AllHitDiceValid ==
    \A k \in 1..Len(request.monsters) :
        ParseHitDice(TemplateOf(request.monsters[k].name).hp.hit_dice).ok

Returned == epc \in {"done", "failed"}

\* The sum over the request's names of count times the template's XP.
RECURSIVE C6_ExpectedTotal(_)
C6_ExpectedTotal(mapping) ==
    IF mapping = <<>> THEN 0
    ELSE Head(mapping).count * TemplateOf(Head(mapping).name).challenge.xp
         + C6_ExpectedTotal(Tail(mapping))

\* C6: when every requested name resolves, the total XP of the result is the
\* sum over the requested names of count times the template's challenge.xp:
\* every instance counts, identical monsters included.
C6_TotalXpIsSumOverInstances ==
    (epc = "done" /\ AllNamesResolve)
    => result.monster_xp_total = C6_ExpectedTotal(request.monsters)

\* C6's case: two instances of one monster and one of another were summed.
C6_Witness ==
    /\ epc = "done"
    /\ request.monsters = <<Entry("Goblin", 2)>>
    /\ result.monster_xp_total = 100

\* The name the k-th instance must carry: the mapping's names in order, each
\* as often as its count.
RECURSIVE C8_NameAt(_, _)
C8_NameAt(mapping, k) ==
    IF k <= Head(mapping).count THEN Head(mapping).name
    ELSE C8_NameAt(Tail(mapping), k - Head(mapping).count)

SomeNameUnknown ==
    \E k \in 1..Len(request.monsters) :
        /\ request.monsters[k].count >= 1
        /\ ~EntryResolves(request.monsters[k].name)

\* C9: a request with a name of count >= 1 that has no catalog entry fails
\* with a monster-not-found error and returns no result.
C9_UnknownNameFailsAsNotFound ==
    (Returned /\ SomeNameUnknown)
    => /\ epc = "failed"
       /\ error = "MonsterNotFound"
       /\ result = NoResult

\* The least and the greatest sum the pools of an expression can roll.
RECURSIVE C10_MinRoll(_)
C10_MinRoll(dice) ==
    IF dice = <<>> THEN 0 ELSE Head(dice).count + C10_MinRoll(Tail(dice))

RECURSIVE C10_MaxRoll(_)
C10_MaxRoll(dice) ==
    IF dice = <<>> THEN 0
    ELSE Head(dice).count * Head(dice).die.faces + C10_MaxRoll(Tail(dice))

\* C10: the hp of every generated instance is a value of its template's
\* parsed hit dice: some total between the least and the greatest roll of
\* the pools plus the modifier, reported as 1 when it is below 1; so hp is
\* never below 1, and a template of "1d1" gives exactly 1.
C10_HpIsEvaluatedHitDice ==
    epc = "done" =>
        \A k \in 1..Len(result.monsters) :
            LET template == TemplateOf(result.monsters[k].name)
                expr == ParseHitDice(template.hp.hit_dice)
                hp == result.monsters[k].hp
            IN /\ expr.ok
               /\ hp >= 1
               /\ \E total \in (C10_MinRoll(expr.dice) + expr.modifier)
                                ..(C10_MaxRoll(expr.dice) + expr.modifier) :
                      hp = IF total < 1 THEN 1 ELSE total
               /\ template.hp.hit_dice = <<"1", "d", "1">> => hp = 1

\* C10's case: two rolls of "2d2-2", one reported as 1 and one as 2, next to
\* nothing else.
C10_Witness ==
    /\ epc = "done"
    /\ request.monsters = <<Entry("Goblin", 2)>>
    /\ result.monsters[1].hp = 1
    /\ result.monsters[2].hp = 2

\* ------------------------------------------------ catalog CRUD claims

\* Some entry of the list has that name.
HasName(list, n) == \E i \in 1..Len(list) : list[i].name = n

\* The catalog as persisted when the call of thread t began.
BeforeList(t) == MonstersFromData(before[t].doc)

\* The persisted list now.
FileList == MonstersFromData(file.doc)

\* Thread t's call has returned and the caller holds the result.
CallReturned(t, kind) == pc[t] = "done" /\ op[t].kind = kind

\* C11: in a sequential run, a create_monster whose monster's name is in the
\* catalog returns False (no exception) without opening the file for
\* writing and leaves the file as it was; a load_monsters that comes right
\* after a create_monster that returned False returns the list that was
\* persisted before that create_monster.
C11_DuplicateCreateChangesNothing ==
    /\ \A t \in Threads :
           (CallReturned(t, "create_monster")
                /\ HasName(BeforeList(t), op[t].monster.name))
           => /\ ret[t] = RetBool(FALSE)
              /\ ~wrote[t]
              /\ file = before[t]
    /\ \A t \in Threads :
           (CallReturned(t, "load_monsters")
                /\ prev.call.kind = "create_monster"
                /\ prev.kind = "bool" /\ ~prev.ok)
           => /\ ret[t].kind = "list"
              /\ heap[ret[t].obj] = MonstersFromData(prev.before.doc)

\* C11's case: a load_monsters has returned two monsters right after a
\* create_monster of an existing name returned False.
C11_Witness ==
    \E t \in Threads :
        /\ CallReturned(t, "load_monsters")
        /\ prev.call.kind = "create_monster"
        /\ prev.kind = "bool" /\ ~prev.ok
        /\ HasName(MonstersFromData(prev.before.doc), prev.call.monster.name)
        /\ ret[t].kind = "list"
        /\ Len(heap[ret[t].obj]) = 2

\* The entry load_monster must return for name n from list: the first entry
\* of that name; None when the list has no such entry.
IsFirstMatch(list, n, r) ==
    IF HasName(list, n)
    THEN /\ r.kind = "monster"
         /\ \E i \in 1..Len(list) :
                /\ list[i] = r.monster
                /\ list[i].name = n
                /\ \A j \in 1..(i - 1) : list[j].name # n
    ELSE r = RetNone

\* C12: in a sequential run, (a) when create_monster(m) returns True the
\* persisted list is the list from before the call followed by m; (b) a
\* load_monster(m.name) that comes right after it returns m; (c) every
\* load_monster(n) returns the first entry of the persisted list whose name
\* is n, and None when the list has none.
C12_CreateAppendsAndIsFound ==
    /\ \A t \in Threads :
           (CallReturned(t, "create_monster") /\ ret[t] = RetBool(TRUE))
           => /\ file.kind = "json"
              /\ FileList = Append(BeforeList(t), op[t].monster)
    /\ \A t \in Threads :
           (CallReturned(t, "load_monster")
                /\ prev.call.kind = "create_monster" /\ prev.ok
                /\ op[t].name = prev.call.monster.name)
           => ret[t] = RetMonster(prev.call.monster)
    /\ \A t \in Threads :
           CallReturned(t, "load_monster")
           => /\ file.kind = "json"
              /\ IsFirstMatch(FileList, op[t].name, ret[t])

\* C12's case: a load_monster has returned the monster that the create_monster
\* right before it appended to a non-empty catalog.
C12_Witness ==
    \E t \in Threads :
        /\ CallReturned(t, "load_monster")
        /\ prev.call.kind = "create_monster" /\ prev.ok
        /\ prev.before.doc # <<>>
        /\ op[t].name = prev.call.monster.name
        /\ ret[t] = RetMonster(prev.call.monster)

\* C12's second case: a load_monster has returned the first of two entries
\* of the name it asked for.
C12_FirstOfTwo ==
    \E t \in Threads :
        /\ CallReturned(t, "load_monster")
        /\ ret[t].kind = "monster"
        /\ Cardinality({i \in 1..Len(FileList) : FileList[i].name = op[t].name}) = 2

\* The number of entries of the list before the first one named n; the
\* length of the list when there is none.
C13_Skipped(list, n) ==
    Cardinality({i \in 1..Len(list) : \A j \in 1..i : list[j].name # n})

\* C13: in a sequential run, update_monster(name, m) on a catalog with an
\* entry of that name returns True and persists the list from before the
\* call with the first such entry replaced by m, every other entry and the
\* order as they were; on a catalog without one it returns False and does
\* not open the file for writing.
C13_UpdateReplacesFirstMatch ==
    \A t \in Threads :
        CallReturned(t, "update_monster")
        => LET old == BeforeList(t)
               i == C13_Skipped(old, op[t].name) + 1
           IN IF HasName(old, op[t].name)
              THEN /\ ret[t] = RetBool(TRUE)
                   /\ file.kind = "json"
                   /\ Len(FileList) = Len(old)
                   /\ FileList[i] = op[t].monster
                   /\ \A k \in 1..Len(old) : k # i => FileList[k] = old[k]
              ELSE /\ ret[t] = RetBool(FALSE)
                   /\ ~wrote[t]
                   /\ file = before[t]

\* C13's case: an update_monster has returned True on a catalog with two
\* entries of the name, replacing the first with a different monster.
C13_Witness ==
    \E t \in Threads :
        /\ CallReturned(t, "update_monster")
        /\ ret[t] = RetBool(TRUE)
        /\ Len(BeforeList(t)) = 2
        /\ BeforeList(t)[1].name = op[t].name
        /\ BeforeList(t)[2].name = op[t].name
        /\ op[t].monster # BeforeList(t)[1]

\* C14: in a sequential run, delete_monster(name) persists the list from
\* before the call without its entries of that name, the others in their
\* order, and returns True exactly when the list became shorter.
C14_DeleteRemovesEveryMatch ==
    \A t \in Threads :
        CallReturned(t, "delete_monster")
        => LET old == BeforeList(t)
               kept == SelectSeq(old, LAMBDA m : m.name # op[t].name)
           IN /\ wrote[t]
              /\ file.kind = "json"
              /\ FileList = kept
              /\ ret[t].kind = "bool"
              /\ ret[t].ok <=> HasName(old, op[t].name)
              /\ ret[t].ok <=> Len(FileList) < Len(old)

\* C14's case: a delete_monster has returned True on a catalog with two
\* entries of the name.
C14_Witness ==
    \E t \in Threads :
        /\ CallReturned(t, "delete_monster")
        /\ ret[t] = RetBool(TRUE)
        /\ Len(BeforeList(t)) = 2
        /\ BeforeList(t)[1].name = op[t].name
        /\ BeforeList(t)[2].name = op[t].name

\* C15: in a sequential run that starts from a catalog of pairwise distinct
\* names, the names of the persisted list stay pairwise distinct.
C15_NamesStayDistinct ==
    file.kind = "json"
    => \A i \in 1..Len(file.doc) : \A j \in 1..Len(file.doc) :
           file.doc[i].name = file.doc[j].name => i = j

\* --------------------------------------------------- dice parser claims

\* The terms of an expression: what the pattern finds in it once stripped
\* and freed of spaces.
TermsOf(e) == FindAll(RemoveSpaces(Strip(e)), 1)

\* A dice term that the parser must refuse: signed "-", no dice, or no faces.
BadDiceTerm(token) ==
    /\ IsDiceTerm(token)
    /\ \/ token[1] = "-"
       \/ DiceGroups(token).count = 0
       \/ DiceGroups(token).faces = 0

\* C16: a parsed expression holds only pools of count > 0 and faces > 0;
\* an expression with a dice term signed "-", of zero count or of zero faces
\* fails as a whole ("-2d6" fails) and a negative plain number is accepted
\* ("2d6-3" gives the one pool 2d6 and the modifier -3).
C16_NoNegativeOrEmptyPool ==
    calc.fn = "parse" =>
        LET terms == TermsOf(calc.expression)
        IN /\ calc.parse.ok
              => \A i \in 1..Len(calc.parse.dice) :
                     /\ calc.parse.dice[i].count > 0
                     /\ calc.parse.dice[i].die.faces > 0
           /\ (\E k \in 1..Len(terms) : BadDiceTerm(terms[k]))
              => calc.parse = ParseError
           /\ calc.expression = <<"-", "2", "d", "6">>
              => calc.parse = ParseError
           /\ calc.expression = <<"2", "d", "6", "-", "3">>
              => calc.parse = Parsed(<<DiePool(2, 6)>>, -3)

\* C16's case: "2d6-3d2", a pool followed by a pool signed "-", was refused.
C16_Witness ==
    /\ calc.fn = "parse"
    /\ calc.expression = <<"2", "d", "6", "-", "3", "d", "2">>
    /\ calc.parse = ParseError

\* C17: an expression that is empty once stripped and freed of spaces, and
\* an expression without a digit (no number or dice term can be found in
\* it), fails and returns nothing.
C17_EmptyOrTermlessFails ==
    calc.fn = "parse" =>
        LET e == calc.expression
            termless == \A k \in 1..Len(e) : e[k] \notin Digits
        IN (RemoveSpaces(Strip(e)) = <<>> \/ termless)
           => calc.parse = ParseError

\* C17's case: "abc" was refused.
C17_Witness ==
    /\ calc.fn = "parse"
    /\ calc.expression = <<"a", "b", "c">>
    /\ calc.parse = ParseError

\* The sum of the values of the plain-number terms.
RECURSIVE C18_SumOfNumbers(_)
C18_SumOfNumbers(terms) ==
    IF terms = <<>> THEN 0
    ELSE LET t == Head(terms)
             digits == SelectSeq(t, LAMBDA c : c \in Digits)
             value == IF t[1] = "-" THEN 0 - DigitsToInt(digits)
                      ELSE DigitsToInt(digits)
         IN value + C18_SumOfNumbers(Tail(terms))

\* C18: for an expression that parses, the pools are its dice terms from
\* left to right, one pool per term with the term's count and faces, and
\* the modifier is the signed sum of its plain-number terms, zero when it
\* has none.
C18_PoolsInOrderModifierSummed ==
    (calc.fn = "parse" /\ calc.parse.ok) =>
        LET terms == TermsOf(calc.expression)
            diceTerms == SelectSeq(terms, IsDiceTerm)
            numberTerms == SelectSeq(terms, LAMBDA t : ~IsDiceTerm(t))
        IN /\ Len(calc.parse.dice) = Len(diceTerms)
           /\ \A i \in 1..Len(diceTerms) :
                  /\ calc.parse.dice[i].count = DiceGroups(diceTerms[i]).count
                  /\ calc.parse.dice[i].die.faces = DiceGroups(diceTerms[i]).faces
           /\ calc.parse.modifier = C18_SumOfNumbers(numberTerms)

\* C18's case: " 1D8 + 2d4 +3 - 1 " gave the pools 1d8 and 2d4, in that
\* order, and the modifier 2.
C18_Witness ==
    /\ calc.fn = "parse"
    /\ Len(calc.expression) = 18
    /\ calc.parse = Parsed(<<DiePool(1, 8), DiePool(2, 4)>>, 2)

\* ------------------------------------------- cache and file claims, again

\* C19: in a sequential run, a load_monsters that starts while a cache is
\* held and the file's content is the content that cache was parsed from
\* returns without running the JSON parser, whichever calls came before it.
C19_UnchangedFileServedFromCache ==
    \A t \in Threads :
        (CallReturned(t, "load_monsters") /\ unchangedAtStart[t])
        => ~parsed[t]

\* C20: under every interleaving, a load_monsters that reads the file reads
\* a complete document: its json.load does not fail on a truncated file.
C20_LoadNeverReadsTruncatedFile ==
    \A t \in Threads :
        (op[t].kind = "load_monsters" /\ parsed[t])
        => ret[t] # RetError

\* ----------------------------------------------------- singleton claims

\* At most one instance of class c was created, and the threads that were
\* handed an instance of c were handed the same one.
OneInstance(c) ==
    /\ allocated[c] <= 1
    /\ \A t \in Threads : \A u \in Threads :
           (obtained[t][c] # 0 /\ obtained[u][c] # 0)
           => obtained[t][c] = obtained[u][c]

\* C21: under every interleaving of first calls of MonsterService(), one
\* instance is created and every caller gets that instance.
C21_OneMonsterService == OneInstance("MonsterService")

\* C22: under every interleaving of first calls of EncounterService() and
\* of HitDiceService(), exactly one instance of the class is created once a
\* call has returned, and every caller gets that instance.
C22_OneLockedService ==
    \A c \in Classes :
        Locked(c)
        => /\ OneInstance(c)
           /\ \A t \in Threads : obtained[t][c] # 0 => allocated[c] = 1

\* C22's case: two threads passed the first test of EncounterService(), the
\* second test found the instance of the other thread, and both were handed
\* the same instance.
C22_Witness ==
    /\ raced["EncounterService"]
    /\ obtained["t1"]["EncounterService"] = 1
    /\ obtained["t2"]["EncounterService"] = 1
    /\ allocated["EncounterService"] = 1

\* ------------------------------------------- encounter claims, again

\* C23: no step of generate_encounter or of its route changes the backing
\* file, in a call that returns a result and in a call that fails; a call
\* that failed takes no further step of the engine, and each loop goes
\* through its instances once, in order.
C23_FileUntouchedNoRetry ==
    [][/\ file' = file
       /\ epc = "failed"
          => /\ epc' = "failed"
             /\ error' = error
             /\ result' = result
             /\ idx' = idx
             /\ cacheVars' = cacheVars
       /\ (epc \in {"total_xp", "initiative_hp"} /\ epc' = epc)
          => idx' = idx + 1]_vars

\* C23's case: a generation failed on the hit dice of its second instance,
\* after the catalog had been loaded, was answered, and the file is what it
\* was.
C23_Witness ==
    /\ epc = "failed"
    /\ error = "ValueError"
    /\ request.monsters = <<Entry("Goblin", 1), Entry("Blob", 1)>>
    /\ status # 0
    /\ monster_cache # 0
    /\ file = JsonFile(EncounterDoc)

\* C24: a generation that fails because a requested name has no catalog
\* entry is answered with status 404.
C24_UnknownNameAnswered404 ==
    (status # 0 /\ epc = "failed" /\ SomeNameUnknown)
    => status = 404

\* ------------------------------------------------ write protocol claims

WriteKinds == {"create_monster", "update_monster", "delete_monster"}

LostCreate(t) ==
    /\ CallReturned(t, "create_monster")
    /\ ret[t] = RetBool(TRUE)
    /\ file.kind = "json"
    /\ ~HasName(FileList, op[t].monster.name)
    /\ \A u \in Threads :
           ~(op[u].kind = "delete_monster" /\ op[u].name = op[t].monster.name)
    /\ ~(prev.call.kind = "delete_monster"
             /\ prev.call.name = op[t].monster.name)

\* C26: the state the claim says is reachable (C26_Witness) is reached, and
\* only through interleaving: whenever a created monster is missing from
\* the persisted list without a delete naming it, another call ran during
\* the create.
C26_CreateLostOnlyByInterleaving ==
    \A t \in Threads : LostCreate(t) => overlapped[t]

\* C26's case: a create_monster returned True, a delete_monster of another
\* name ran at the same time and has returned, and the created monster is
\* not in the persisted file.
C26_Witness ==
    \E t \in Threads : \E u \in Threads \ {t} :
        /\ LostCreate(t)
        /\ CallReturned(u, "delete_monster")
        /\ op[u].name # op[t].monster.name

\* C30: in a sequential run in which opening the file for writing may fail,
\* a create_monster or update_monster that fails there has changed the
\* cached list in place, leaves the file as it was and the recorded hash the
\* empty sentinel, and the load_monsters that follows runs the JSON parser
\* and returns the list persisted before the failed call.
C30_FailedWriteDoesNotLeak ==
    /\ \A t \in Threads :
           (pc[t] = "done" /\ ret[t] = RetError
                /\ op[t].kind \in {"create_monster", "update_monster"})
           => /\ file = before[t]
              /\ ~wrote[t]
              /\ monster_file_hash = EmptyHash
              /\ monster_cache # 0
              /\ heap[monster_cache] # BeforeList(t)
                     \/ (op[t].kind = "update_monster"
                             /\ op[t].monster \in
                                    {BeforeList(t)[i] : i \in 1..Len(BeforeList(t))})
    /\ \A t \in Threads :
           (CallReturned(t, "load_monsters")
                /\ prev.call.kind \in {"create_monster", "update_monster"}
                /\ prev.kind = "error")
           => /\ parsed[t]
              /\ file = prev.before
              /\ ret[t].kind = "list"
              /\ heap[ret[t].obj] = MonstersFromData(prev.before.doc)

\* C30's case: a load_monsters has returned the old, non-empty list right
\* after a create_monster failed at opening the file.
C30_Witness ==
    \E t \in Threads :
        /\ CallReturned(t, "load_monsters")
        /\ prev.call.kind = "create_monster"
        /\ prev.kind = "error"
        /\ ret[t].kind = "list"
        /\ heap[ret[t].obj] # <<>>
        /\ ~HasName(heap[ret[t].obj], prev.call.monster.name)

\* ------------------------------------------- arithmetic claims, again

\* No member of the party has a level with a row in the table.
NoLevelInTable(levels) ==
    \A i \in 1..Len(levels) : levels[i] \notin 1..Len(LEVEL_THRESHOLDS)

\* C27: for a party without a member of a level in 1..20 (the empty party
\* included) the four summed thresholds are 0 and every adjusted XP, 0
\* included, is classified Deadly; a total of 0 XP is adjusted to 0 for
\* every number of monsters, none included.
C27_ZeroThresholdsAlwaysDeadly ==
    /\ (calc.fn = "party_thresholds" /\ NoLevelInTable(calc.levels))
       => calc.thresholds = NoThresholds
    /\ (calc.fn = "assess" /\ NoLevelInTable(calc.levels))
       => calc.difficulty = DEADLY
    /\ (calc.fn = "adjusted_xp" /\ calc.total_xp = 0)
       => calc.adjusted = 0

\* C27's case: 0 XP against the empty party was classified Deadly.
C27_Witness ==
    /\ calc.fn = "assess"
    /\ calc.levels = <<>>
    /\ calc.xp = 0
    /\ calc.difficulty = DEADLY

\* The tiers in ascending order.
C29_Rank(d) ==
    CASE d = EASY -> 1 [] d = MEDIUM -> 2 [] d = HARD -> 3 [] d = DEADLY -> 4

\* C29: the four summed thresholds of a party are in ascending order, and
\* for a party and two adjusted XP values the tier of the greater value is
\* not below the tier of the smaller one.
C29_ClassificationMonotone ==
    /\ calc.fn = "party_thresholds"
       => /\ calc.thresholds.easy <= calc.thresholds.medium
          /\ calc.thresholds.medium <= calc.thresholds.hard
          /\ calc.thresholds.hard <= calc.thresholds.deadly
    /\ calc.fn = "assess"
       => \A xp2 \in XpSamples(calc.levels) :
              calc.xp <= xp2
              => C29_Rank(calc.difficulty)
                     <= C29_Rank(AssessEncounterDifficulty(xp2, calc.levels))

\* C29's case: 899 XP against four level-3 characters, one below their hard
\* threshold, was classified Medium.
C29_Witness ==
    /\ calc.fn = "assess"
    /\ calc.levels = <<3, 3, 3, 3>>
    /\ calc.xp = 899
    /\ calc.difficulty = MEDIUM

\* ------------------------------------------- dice parser claims, again

\* C28: an expression with a digit and without a refused dice term parses,
\* whatever else it holds; "2d" and "d6" give no pool and the modifiers 2
\* and 6; "2d6xyz" gives what "2d6" gives; a letter at the end of an
\* expression changes nothing.
C28_JunkIsSkipped ==
    calc.fn = "parse" =>
        LET e == calc.expression
            terms == TermsOf(e)
        IN /\ ((\E k \in 1..Len(e) : e[k] \in Digits)
                   /\ \A k \in 1..Len(terms) : ~BadDiceTerm(terms[k]))
              => calc.parse.ok
           /\ e = <<"2", "d">> => calc.parse = Parsed(<<>>, 2)
           /\ e = <<"d", "6">> => calc.parse = Parsed(<<>>, 6)
           /\ e = <<"2", "d", "6", "x", "y", "z">>
              => /\ calc.parse = Parsed(<<DiePool(2, 6)>>, 0)
                 /\ calc.parse = ParseHitDice(<<"2", "d", "6">>)
           /\ (e # <<>> /\ e[Len(e)] = "a")
              => calc.parse = ParseHitDice(SubSeq(e, 1, Len(e) - 1))

\* C28's case: "x2yd6z-1", letters around and between its terms, gave no
\* pool and the modifier 2 + 6 - 1.
C28_Witness ==
    /\ calc.fn = "parse"
    /\ calc.expression = <<"x", "2", "y", "d", "6", "z", "-", "1">>
    /\ calc.parse = Parsed(<<>>, 7)

====
